---- MODULE Spec2Model ----
(***************************************************************************)
(* FreqShowModel (src/model.py): the tuner configuration state, the        *)
(* intensity auto-scaling state and the spectral acquisition of FreqShow.  *)
(*                                                                         *)
(* Units.  A frequency in megahertz is held exactly as its number of       *)
(* hertz (a decimal with six places), so the code's "* 1000000.0" and      *)
(* "/ 1000000.0" are the change of unit of that representation.  A sample  *)
(* rate REQUEST is held in tenths of a hertz (seven places), so that       *)
(* int(sample_rate_mhz * 1000000.0) is a real truncation.  Python floats    *)
(* are modelled as exact numbers extended with -inf, +inf and nan; the     *)
(* rounding of binary floating point is not modelled.                      *)
(***************************************************************************)
EXTENDS Integers, Sequences, FiniteSets, TLC

(***************************************************************************)
(* Bounds of the model.                                                    *)
(***************************************************************************)
\* Length of the pattern of hardware failures one call can meet.
FailLen == 2
\* Display width in pixels (FreqShowModel.width).
Width == 2
\* Largest display width of the acquisitions checked one frame at a time.
MaxWidth == 3

(***************************************************************************)
(* Program constants.                                                      *)
(***************************************************************************)
OffsetMHz == 125
DefaultFreqMHz == 145
\* 2.4 MHz, in tenths of a hertz.
DefaultRateReq == 24000000
RateLowMin == 225001
RateLowMax == 300000
RateHighMin == 900001
RateHighMax == 3200000
\* Number of hertz in a megahertz (the factor 1000000.0).
HzPerMHz == 1000000
\* Tenths of a hertz in a hertz: the resolution of a sample-rate request.
ReqPerHz == 10

(***************************************************************************)
(* Python values.                                                          *)
(***************************************************************************)
Fin(n) == [c |-> "fin", v |-> n]
NegInf == [c |-> "-inf", v |-> 0]
PosInf == [c |-> "+inf", v |-> 0]
NaN == [c |-> "nan", v |-> 0]
None == [c |-> "none", v |-> 0]

\* a < b on floats (nan compares false with everything).
FLess(a, b) ==
    CASE a.c = "nan" \/ b.c = "nan" -> FALSE
      [] a.c = "-inf" -> b.c /= "-inf"
      [] a.c = "+inf" -> FALSE
      [] b.c = "-inf" -> FALSE
      [] b.c = "+inf" -> TRUE
      [] OTHER -> a.v < b.v

\* Python's min(a, b): a unless b < a.
PyMin(a, b) == IF FLess(b, a) THEN b ELSE a

\* Python's max(a, b): a unless b > a.
PyMax(a, b) == IF FLess(a, b) THEN b ELSE a

\* a - b on floats.
FSub(a, b) ==
    CASE a.c = "nan" \/ b.c = "nan" -> NaN
      [] a.c = "fin" /\ b.c = "fin" -> Fin(a.v - b.v)
      [] a.c = b.c -> NaN
      [] a.c = "fin" -> IF b.c = "-inf" THEN PosInf ELSE NegInf
      [] OTHER -> a

\* A conversion that rounds up instead of truncating.
PyInt_ceil(tenths) == (tenths + ReqPerHz - 1) \div ReqPerHz

\* int(x) of a number held in tenths: truncation toward zero.
PyInt(tenths) ==
    IF tenths >= 0 THEN tenths \div ReqPerHz ELSE -((-tenths) \div ReqPerHz)

(***************************************************************************)
(* Input domains.                                                          *)
(***************************************************************************)
Patterns(n) == [1..n -> BOOLEAN]
FailPatterns == Patterns(FailLen)
\* Nominal center frequencies a caller asks for, in hertz.
FreqInputs == {100 * HzPerMHz, DefaultFreqMHz * HzPerMHz}
\* Sample rates a caller asks for, in tenths of a hertz.
RateInputs == {2250009, 2250010, 3000000, 3000001, 3000010, 9000009,
               9000010, DefaultRateReq, 32000009, 32000010}
AUTO == [c |-> "AUTO", v |-> 0]
Bool(b) == [c |-> "bool", v |-> IF b THEN 1 ELSE 0]
\* Manual gains, in decibels, and 'AUTO'.
GainInputs == {AUTO, Fin(10)}
\* Fixed intensity bounds, in decibels, and 'AUTO'.
IntensityInputs == {AUTO, Fin(10), Fin(-10)}
\* Magnitudes of a transformed sample (powers of ten, and silence).
Mags == {0, 1, 10}
\* What a device holds right after RtlSdr() opens it.
FreshDevice ==
    [center_freq |-> 80 * HzPerMHz, sample_rate |-> 1024000, gain |-> 0,
     manual_gain |-> FALSE]
\* Sizes of the sample block a hardware read delivers.
BlockSizes == 0..(Width + 3)
\* Magnitudes of the mean/DC bins at the two ends of a spectrum.
DCMags == {10}
\* The magnitude spectra of the blocks of len samples: the end bins hold
\* the mean/DC magnitude, the bins between them any magnitude.
Spectra(len) ==
    {s \in [1..len -> Mags] : \A i \in 1..len : i \in {1, len} => s[i] \in DCMags}

\* The fields of the object and its device; then, of the last call: the
\* operation, its argument, what it returned, how often it constructed
\* RtlSdr(), reported an error and called the hardware, and the magnitude
\* spectrum it transformed (get_data).
VARIABLES
    width, offsetted, sdr, auto_gain,
    min_auto_scale, max_auto_scale, min_intensity, max_intensity, range,
    op, arg, ret, reinits, reports, hwcalls, spectrum

vars == <<width, offsetted, sdr, auto_gain, min_auto_scale, max_auto_scale,
          min_intensity, max_intensity, range, op, arg, ret, reinits,
          reports, hwcalls, spectrum>>

(***************************************************************************)
(* Return values.                                                          *)
(***************************************************************************)
RetNone == [kind |-> "none", summary |-> "", detail |-> "", frame |-> <<>>]
RetError(s, d) == [kind |-> "error", summary |-> s, detail |-> d, frame |-> <<>>]
RetFrame(f) == [kind |-> "frame", summary |-> "", detail |-> "", frame |-> f]
RetRaise(e) == [kind |-> "raise", summary |-> e, detail |-> "", frame |-> <<>>]

(***************************************************************************)
(* The object during a call.  m holds the fields of FreqShowModel and of   *)
(* the device behind self.sdr, and the call's context: fl, the pattern of  *)
(* hardware failures the call meets (its i-th fallible hardware call       *)
(* fails iff fl[i]; calls past the pattern succeed), fi, the index of the  *)
(* next fallible hardware call, io, whether                                *)
(* the last hardware call raised IOError, and the counts of what the call  *)
(* did.                                                                    *)
(***************************************************************************)
Fails(m) == m.fi \in DOMAIN m.fl /\ m.fl[m.fi]

\* One fallible call on the hardware capability: it raises IOError and
\* leaves the device alone, or applies dev.
HwCall(m, dev) ==
    [m EXCEPT !.fi = @ + 1, !.hwcalls = @ + 1, !.io = Fails(m),
              !.sdr = IF Fails(m) THEN @ ELSE dev]

sdr_set_center_freq(m, hz) == HwCall(m, [m.sdr EXCEPT !.center_freq = hz])

sdr_set_sample_rate(m, hz) == HwCall(m, [m.sdr EXCEPT !.sample_rate = hz])

sdr_set_gain(m, db) == HwCall(m, [m.sdr EXCEPT !.gain = db])

\* set_manual_gain_enabled is called outside any try block; the hardware
\* interface gives it no failure.
sdr_set_manual_gain_enabled(m, b) ==
    [m EXCEPT !.sdr.manual_gain = b, !.hwcalls = @ + 1, !.io = FALSE]

\* A clear that forgets the lower bound.
_clear_intensity_keepmin(m) ==
    [m EXCEPT !.max_intensity = IF m.max_auto_scale THEN None ELSE @,
              !.range = None]

_clear_intensity(m) ==
    [m EXCEPT !.min_intensity = IF m.min_auto_scale THEN None ELSE @,
              !.max_intensity = IF m.max_auto_scale THEN None ELSE @,
              !.range = None]

is_offsetted(m) == m.offsetted

\* In hertz (OffsetMHz megahertz).
get_offset_mhz(m) == IF is_offsetted(m) THEN OffsetMHz * HzPerMHz ELSE 0

get_nominal_center_freq(m) == m.sdr.center_freq - get_offset_mhz(m)

\* A request that leaves the offset out.
ActualFreq_nooffset(m, freq_mhz) == freq_mhz

\* The hardware value set_nominal_center_freq asks for.
ActualFreq(m, freq_mhz) == freq_mhz + get_offset_mhz(m)

get_sample_rate(m) == m.sdr.sample_rate

\* Bands that leave out their lower edges.
RateLegal_strict(sample_rate) ==
    \/ RateLowMin < sample_rate /\ sample_rate <= RateLowMax
    \/ RateHighMin < sample_rate /\ sample_rate <= RateHighMax

\* The legal bands of the integer sample rate.
RateLegal(sample_rate) ==
    \/ RateLowMin <= sample_rate /\ sample_rate <= RateLowMax
    \/ RateHighMin <= sample_rate /\ sample_rate <= RateHighMax

\* What a successful set_sample_rate does after the hardware call.
AfterSampleRate(m) == [m EXCEPT !.ret = RetNone]

\* What set_gain('AUTO') does.
GainAuto(m) ==
    [_clear_intensity([sdr_set_manual_gain_enabled(m, FALSE)
                          EXCEPT !.auto_gain = TRUE])
        EXCEPT !.ret = RetNone]

\* A reinitialization that keeps the offset flag.
OpenDevice_keepflag(m) == [m EXCEPT !.sdr = FreshDevice, !.reinits = @ + 1]

\* The device and flag _initialize_rtlsdr starts from.
OpenDevice(m) ==
    [m EXCEPT !.sdr = FreshDevice, !.offsetted = FALSE, !.reinits = @ + 1]

RECURSIVE set_nominal_center_freq(_, _)
RECURSIVE set_sample_rate(_, _)
RECURSIVE set_gain(_, _)
RECURSIVE _initialize_rtlsdr(_)
RECURSIVE report_error(_, _)

report_error(m, action) ==
    [_initialize_rtlsdr([m EXCEPT !.reports = @ + 1])
        EXCEPT !.ret = RetError("Can't " \o action, "IOError")]

set_nominal_center_freq(m, freq_mhz) ==
    LET h == sdr_set_center_freq(m, ActualFreq(m, freq_mhz))
    IN  IF h.io
        THEN report_error(h, "set center frequency")
        ELSE [_clear_intensity(h) EXCEPT !.ret = RetNone]

set_sample_rate(m, sample_rate_mhz) ==
    LET sample_rate == PyInt(sample_rate_mhz)
    IN  IF ~RateLegal(sample_rate)
        THEN [m EXCEPT !.ret = RetError("Specified sample rate out of range!",
                  "Valid sample rates are 0.226 - 0.3 MHz and 0.901 - 3.2 MHz.")]
        ELSE LET h == sdr_set_sample_rate(m, sample_rate)
             IN  IF h.io
                 THEN report_error(h, "set sample rate")
                 ELSE AfterSampleRate(h)

set_gain(m, gain_db) ==
    IF gain_db = AUTO
    THEN GainAuto(m)
    ELSE LET h == sdr_set_gain(
                      _clear_intensity([m EXCEPT !.auto_gain = FALSE]),
                      gain_db.v)
         IN  IF h.io
             THEN report_error(h, "set gain")
             ELSE [h EXCEPT !.ret = RetNone]

_initialize_rtlsdr(m) ==
    set_gain(
        set_sample_rate(
            set_nominal_center_freq(OpenDevice(m), DefaultFreqMHz * HzPerMHz),
            DefaultRateReq),
        AUTO)

\* A toggle that reads the nominal frequency after changing the flag.
set_offsetted_late(m, enabled) ==
    LET n == [m EXCEPT !.offsetted = enabled]
    IN  set_nominal_center_freq(n, get_nominal_center_freq(n))

set_offsetted(m, enabled) ==
    LET frequency == get_nominal_center_freq(m)
    IN  set_nominal_center_freq([m EXCEPT !.offsetted = enabled], frequency)

set_min_intensity(m, intensity) ==
    [_clear_intensity(
        IF intensity = AUTO
        THEN [m EXCEPT !.min_auto_scale = TRUE]
        ELSE [m EXCEPT !.min_auto_scale = FALSE, !.min_intensity = intensity])
     EXCEPT !.ret = RetNone]

\* A setter of max that leaves the accumulated bounds and range standing.
set_max_intensity_noclear(m, intensity) ==
    [(IF intensity = AUTO
      THEN [m EXCEPT !.max_auto_scale = TRUE]
      ELSE [m EXCEPT !.max_auto_scale = FALSE, !.max_intensity = intensity])
     EXCEPT !.ret = RetNone]

set_max_intensity(m, intensity) ==
    [_clear_intensity(
        IF intensity = AUTO
        THEN [m EXCEPT !.max_auto_scale = TRUE]
        ELSE [m EXCEPT !.max_auto_scale = FALSE, !.max_intensity = intensity])
     EXCEPT !.ret = RetNone]

(***************************************************************************)
(* get_data.  The hardware read raises IOError or delivers a block of n    *)
(* samples; mags stands for np.absolute(np.fft.fft(samples)) of the sliced *)
(* block: the transform is a bijection of the complex vectors of a length, *)
(* so every sequence of magnitudes of that length is the spectrum of some  *)
(* block.                                                                  *)
(***************************************************************************)
\* Length of samples[0:width+2] of a block of n samples.
SliceLen(w, n) == IF n < w + 2 THEN n ELSE w + 2

\* A slice that keeps the first bin and drops the last two.
DropEnds_keepdc(s) == IF Len(s) <= 2 THEN <<>> ELSE SubSeq(s, 1, Len(s) - 2)

\* freqs[1:-1]
DropEnds(s) == IF Len(s) <= 2 THEN <<>> ELSE SubSeq(s, 2, Len(s) - 1)

\* The inverse shift, which rounds N / 2 up.
fftshift_ceil(s) ==
    LET N == Len(s)
    IN  [j \in 1..N |-> s[(((j - 1) - ((N + 1) \div 2)) % N) + 1]]

\* np.fft.fftshift: result[(i + N \div 2) mod N] = x[i], 0-based.
fftshift(s) ==
    LET N == Len(s)
    IN  [j \in 1..N |-> s[(((j - 1) - (N \div 2)) % N) + 1]]

RECURSIVE Log10(_)
\* log10 of a power of ten.
Log10(x) == IF x <= 1 THEN 0 ELSE 1 + Log10(x \div 10)

\* 20.0 * np.log10(x)
Decibels(x) == IF x = 0 THEN NegInf ELSE Fin(20 * Log10(x))

RECURSIVE np_min(_)
np_min(s) == IF Len(s) = 1 THEN s[1] ELSE PyMin(s[1], np_min(Tail(s)))

RECURSIVE np_max(_)
np_max(s) == IF Len(s) = 1 THEN s[1] ELSE PyMax(s[1], np_max(Tail(s)))

\* An update that ignores the auto flag.
UpdateMin_always(m, freqs) ==
    IF Len(freqs) > 0
    THEN [m EXCEPT !.min_intensity =
              IF m.min_intensity = None THEN np_min(freqs)
              ELSE PyMin(np_min(freqs), m.min_intensity)]
    ELSE m

\* An update that forgets the earlier frames.
UpdateMin_forget(m, freqs) ==
    IF m.min_auto_scale
    THEN [m EXCEPT !.min_intensity = np_min(freqs)]
    ELSE m

\* The auto-scale update of min_intensity.
UpdateMin(m, freqs) ==
    IF m.min_auto_scale
    THEN [m EXCEPT !.min_intensity =
              IF m.min_intensity = None THEN np_min(freqs)
              ELSE PyMin(np_min(freqs), m.min_intensity)]
    ELSE m

\* An update that fixes the bound at the maximum of the first frame.
UpdateMax_fixing(m, freqs) ==
    IF m.max_auto_scale
    THEN [m EXCEPT !.max_auto_scale = FALSE,
                   !.max_intensity =
                       IF m.max_intensity = None THEN np_max(freqs)
                       ELSE PyMax(np_max(freqs), m.max_intensity)]
    ELSE m

\* The auto-scale update of max_intensity.
UpdateMax(m, freqs) ==
    IF m.max_auto_scale
    THEN [m EXCEPT !.max_intensity =
              IF m.max_intensity = None THEN np_max(freqs)
              ELSE PyMax(np_max(freqs), m.max_intensity)]
    ELSE m

\* A range computed as min_intensity - max_intensity.
UpdateRange_swapped(m, freqs) ==
    IF m.max_intensity = None \/ m.min_intensity = None
    THEN [m EXCEPT !.ret = RetRaise("TypeError")]
    ELSE [m EXCEPT !.range = FSub(m.min_intensity, m.max_intensity),
                   !.ret = RetFrame(freqs)]

\* self.range = self.max_intensity - self.min_intensity, and the return.
UpdateRange(m, freqs) ==
    IF m.max_intensity = None \/ m.min_intensity = None
    THEN [m EXCEPT !.ret = RetRaise("TypeError")]
    ELSE [m EXCEPT !.range = FSub(m.max_intensity, m.min_intensity),
                   !.ret = RetFrame(freqs)]

\* A read failure that is caught and reported as the setters' are.
ReadFailure_reported(m) == report_error(m, "read samples")

\* read_samples raises IOError, which nothing in get_data catches.
ReadFailure(m) == [m EXCEPT !.ret = RetRaise("IOError")]

get_data(m, readFails, mags) ==
    LET c == [m EXCEPT !.hwcalls = @ + 1, !.spectrum = mags]
        freqs == [i \in DOMAIN fftshift(DropEnds(mags)) |->
                     Decibels(fftshift(DropEnds(mags))[i])]
    IN  IF readFails THEN ReadFailure(c)
        ELSE IF Len(mags) = 0 THEN [c EXCEPT !.ret = RetRaise("ValueError")]
        ELSE IF c.min_auto_scale /\ Len(freqs) = 0
             THEN [c EXCEPT !.ret = RetRaise("ValueError")]
        ELSE IF c.max_auto_scale /\ Len(freqs) = 0
             THEN [UpdateMin(c, freqs) EXCEPT !.ret = RetRaise("ValueError")]
        ELSE UpdateRange(UpdateMax(UpdateMin(c, freqs), freqs), freqs)

(***************************************************************************)
(* The state machine: one action per public operation.                     *)
(***************************************************************************)
\* The object at the start of a call that meets failures fl and device d.
Self(fl) ==
    [width |-> width, spectrum |-> <<>>, offsetted |-> offsetted, sdr |-> sdr, auto_gain |-> auto_gain,
     min_auto_scale |-> min_auto_scale, max_auto_scale |-> max_auto_scale,
     min_intensity |-> min_intensity, max_intensity |-> max_intensity,
     range |-> range,
     fl |-> fl, fi |-> 1, io |-> FALSE,
     reinits |-> 0, reports |-> 0, hwcalls |-> 0, ret |-> RetNone]

\* The object before __init__ has assigned anything.
Blank(w, fl) ==
    [width |-> w, spectrum |-> <<>>, offsetted |-> FALSE, sdr |-> FreshDevice, auto_gain |-> FALSE,
     min_auto_scale |-> TRUE, max_auto_scale |-> TRUE,
     min_intensity |-> None, max_intensity |-> None, range |-> None,
     fl |-> fl, fi |-> 1, io |-> FALSE,
     reinits |-> 0, reports |-> 0, hwcalls |-> 0, ret |-> RetNone]

__init__(w, fl) ==
    _initialize_rtlsdr(
        set_max_intensity(set_min_intensity(Blank(w, fl), AUTO), AUTO))

\* The state of the program is that of m, after operation o with argument a.
IsState(m, o, a) ==
    /\ width = m.width
    /\ spectrum = m.spectrum
    /\ offsetted = m.offsetted
    /\ sdr = m.sdr
    /\ auto_gain = m.auto_gain
    /\ min_auto_scale = m.min_auto_scale
    /\ max_auto_scale = m.max_auto_scale
    /\ min_intensity = m.min_intensity
    /\ max_intensity = m.max_intensity
    /\ range = m.range
    /\ op = o
    /\ arg = a
    /\ ret = m.ret
    /\ reinits = m.reinits
    /\ reports = m.reports
    /\ hwcalls = m.hwcalls

\* The call of operation o with argument a returns, leaving the object as m.
Returns(m, o, a) ==
    /\ width' = m.width
    /\ spectrum' = m.spectrum
    /\ offsetted' = m.offsetted
    /\ sdr' = m.sdr
    /\ auto_gain' = m.auto_gain
    /\ min_auto_scale' = m.min_auto_scale
    /\ max_auto_scale' = m.max_auto_scale
    /\ min_intensity' = m.min_intensity
    /\ max_intensity' = m.max_intensity
    /\ range' = m.range
    /\ op' = o
    /\ arg' = a
    /\ ret' = m.ret
    /\ reinits' = m.reinits
    /\ reports' = m.reports
    /\ hwcalls' = m.hwcalls

Init ==
    \E fl \in FailPatterns :
        IsState([__init__(Width, fl) EXCEPT !.ret = RetNone], "__init__", None)

SetOffsetted ==
    \E e \in BOOLEAN, fl \in FailPatterns :
        Returns(set_offsetted(Self(fl), e), "set_offsetted", Bool(e))

SetNominalCenterFreq ==
    \E f \in FreqInputs, fl \in FailPatterns :
        Returns(set_nominal_center_freq(Self(fl), f),
                "set_nominal_center_freq", Fin(f))

SetSampleRate ==
    \E r \in RateInputs, fl \in FailPatterns :
        Returns(set_sample_rate(Self(fl), r), "set_sample_rate", Fin(r))

SetGain ==
    \E g \in GainInputs, fl \in FailPatterns :
        Returns(set_gain(Self(fl), g), "set_gain", g)

SetMinIntensity ==
    \E i \in IntensityInputs :
        Returns(set_min_intensity(Self(<<>>), i), "set_min_intensity", i)

SetMaxIntensity ==
    \E i \in IntensityInputs :
        Returns(set_max_intensity(Self(<<>>), i), "set_max_intensity", i)

GetData ==
    \E n \in BlockSizes :
        \E mags \in Spectra(SliceLen(width, n)) :
            Returns(get_data(Self(<<>>), FALSE, mags), "get_data", None)

\* get_data when the hardware read raises.
GetDataReadFails ==
    Returns(get_data(Self(<<>>), TRUE, <<>>), "get_data", None)

Next ==
    \/ SetOffsetted
    \/ SetNominalCenterFreq
    \/ SetSampleRate
    \/ SetGain
    \/ SetMinIntensity
    \/ SetMaxIntensity
    \/ GetData
    \/ GetDataReadFails

Spec == Init /\ [][Next]_vars

(***************************************************************************)
(* Acquisitions alone, for every display width up to MaxWidth: the read    *)
(* delivers at least width + 2 samples, and the spectrum of the sliced     *)
(* block is any sequence of magnitudes, its end bins included.             *)
(***************************************************************************)
InitFrame ==
    \E w \in 1..MaxWidth :
        IsState([__init__(w, <<>>) EXCEPT !.ret = RetNone], "__init__", None)

GetDataFullBlock ==
    \E mags \in [1..SliceLen(width, width + 2) -> Mags] :
        Returns(get_data(Self(<<>>), FALSE, mags), "get_data", None)

NextFrame == GetDataFullBlock

SpecFrame == InitFrame /\ [][NextFrame]_vars

(***************************************************************************)
(* What the claims speak of.                                               *)
(***************************************************************************)
FallibleSetters ==
    {"set_nominal_center_freq", "set_sample_rate", "set_gain", "set_offsetted"}

\* The integer sample rate lies in one of the two legal bands.
InBands(hz) ==
    \/ 225001 <= hz /\ hz <= 300000
    \/ 900001 <= hz /\ hz <= 3200000

\* The integer number of hertz of a request of t >= 0 tenths of a hertz.
WholeHz(t) == t \div 10

\* The call returned the validation error of set_sample_rate.
Rejected(r) ==
    /\ r.kind = "error"
    /\ r.summary = "Specified sample rate out of range!"
    /\ r.detail /= ""

\* The tuner fields and the scaling state.
TunerAndScaling ==
    <<offsetted, sdr, auto_gain, min_auto_scale, max_auto_scale,
      min_intensity, max_intensity, range>>

\* The nominal center frequency a caller reads, in hertz.
Nominal == sdr.center_freq - (IF offsetted THEN 125000000 ELSE 0)

\* Every bound on auto is absent, and so is range.
AutoBoundsAbsent ==
    /\ min_auto_scale => min_intensity = None
    /\ max_auto_scale => max_intensity = None
    /\ range = None

\* The values of a frame.
Values(f) == {f[i] : i \in DOMAIN f}

\* The least and the greatest value of a non-empty frame.
Least(f) == CHOOSE x \in Values(f) : \A y \in Values(f) : ~FLess(y, x)
Greatest(f) == CHOOSE x \in Values(f) : \A y \in Values(f) : ~FLess(x, y)

(***************************************************************************)
(* C1.  set_sample_rate accepts a request iff its integer number of hertz  *)
(* lies in [225001, 300000] or [900001, 3200000]; a request outside then   *)
(* returns the (summary, detail) validation error, makes no call on the    *)
(* hardware, and leaves the tuner and the scaling state as they were.      *)
(***************************************************************************)
C1_SampleRateValidated ==
    [][op' = "set_sample_rate" =>
        /\ Rejected(ret') <=> ~InBands(WholeHz(arg'.v))
        /\ Rejected(ret') =>
              /\ hwcalls' = 0
              /\ reinits' = 0
              /\ TunerAndScaling' = TunerAndScaling]_vars

\* A request one hertz above the low band was rejected while the hardware
\* held a rate other than the default and the scaling state held bounds.
C1_Witness ==
    /\ op = "set_sample_rate"
    /\ arg = Fin(3000010)
    /\ Rejected(ret)
    /\ sdr.sample_rate = 900001
    /\ min_intensity /= None
    /\ range /= None

(***************************************************************************)
(* C2 as stated.  set_sample_rate(0.3) succeeds, and set_sample_rate of    *)
(* 0.3000001 (300000.1 Hz) fails with the validation error.                *)
(***************************************************************************)
C2_AsStated ==
    op = "set_sample_rate" =>
        /\ arg = Fin(3000000) /\ reports = 0 => ret = RetNone
        /\ arg = Fin(3000001) => Rejected(ret)

(***************************************************************************)
(* C2 amended.  set_sample_rate(0.3) succeeds; set_sample_rate(0.3000001)  *)
(* succeeds too, the request being truncated to 300000 Hz, which the       *)
(* hardware then holds; the request of 300001 Hz (0.300001) fails with the *)
(* validation error and leaves the prior sample rate unchanged.            *)
(***************************************************************************)
C2_UpperEdgeOfLowBand ==
    [][op' = "set_sample_rate" =>
        /\ arg' \in {Fin(3000000), Fin(3000001)} /\ reports' = 0 =>
              ret' = RetNone /\ sdr'.sample_rate = 300000
        /\ arg' \in {Fin(3000000), Fin(3000001)} => ~Rejected(ret')
        /\ arg' = Fin(3000010) =>
              Rejected(ret') /\ sdr'.sample_rate = sdr.sample_rate]_vars

\* The request of 300000.1 Hz was accepted and the hardware holds 300000 Hz.
C2_Witness ==
    /\ op = "set_sample_rate"
    /\ arg = Fin(3000001)
    /\ ret = RetNone
    /\ sdr.sample_rate = 300000

(***************************************************************************)
(* C3 as stated.  Whatever hardware calls fail during one call of a        *)
(* fallible setter, the failure is reported once and the hardware          *)
(* capability is reinitialized exactly once.                               *)
(***************************************************************************)
C3_OneShotReinit ==
    op \in FallibleSetters /\ reports > 0 => reports = 1 /\ reinits = 1

(***************************************************************************)
(* C4.  When the hardware call of a fallible setter fails and the calls of *)
(* the reinitialization succeed, the setter returns a non-empty (summary,  *)
(* detail) pair and leaves the tuner in its default state: offset off,     *)
(* nominal center frequency 145 MHz, sample rate 2.4 MHz, gain Auto.       *)
(***************************************************************************)
C4_FailureRestoresDefaults ==
    op \in FallibleSetters /\ reports = 1 =>
        /\ ret.kind = "error"
        /\ ret.summary /= "" /\ ret.detail /= ""
        /\ reinits = 1
        /\ offsetted = FALSE
        /\ Nominal = 145000000
        /\ sdr.center_freq = 145000000
        /\ sdr.sample_rate = 2400000
        /\ auto_gain = TRUE
        /\ sdr.manual_gain = FALSE

\* Enabling the offset failed at the hardware, once.
C4_Witness ==
    /\ op = "set_offsetted"
    /\ arg = Bool(TRUE)
    /\ reports = 1
    /\ ret.kind = "error"

(***************************************************************************)
(* C5.  Right after a successful set_nominal_center_freq or set_gain (Auto *)
(* or Manual), every bound whose auto flag is on is absent and range is    *)
(* absent, while a bound whose auto flag is off keeps its fixed value.     *)
(***************************************************************************)
C5_TuningClearsAutoBounds ==
    [][op' \in {"set_nominal_center_freq", "set_gain"} /\ ret' = RetNone =>
        /\ AutoBoundsAbsent'
        /\ min_auto_scale' = min_auto_scale
        /\ max_auto_scale' = max_auto_scale
        /\ ~min_auto_scale => min_intensity' = min_intensity
        /\ ~max_auto_scale => max_intensity' = max_intensity]_vars

\* A manual gain was set with the lower bound on auto and the upper fixed.
C5_Witness ==
    /\ op = "set_gain"
    /\ arg = Fin(10)
    /\ ret = RetNone
    /\ min_auto_scale /\ min_intensity = None
    /\ ~max_auto_scale /\ max_intensity = Fin(-10)
    /\ range = None

(***************************************************************************)
(* C6 as stated.  After an accepted set_sample_rate whose hardware call    *)
(* succeeds, the auto intensity bounds earlier acquisitions observed are   *)
(* absent.                                                                 *)
(***************************************************************************)
C6_SampleRateClearsScaling ==
    op = "set_sample_rate" /\ ret = RetNone => AutoBoundsAbsent

(***************************************************************************)
(* C7.  A successful set_offsetted(e) preserves the nominal center         *)
(* frequency, and moves the hardware frequency by +125 MHz when the flag   *)
(* goes from off to on, by -125 MHz from on to off, and not at all when    *)
(* the flag is unchanged.                                                  *)
(***************************************************************************)
C7_TogglePreservesNominal ==
    [][op' = "set_offsetted" /\ ret' = RetNone =>
        /\ offsetted' = (arg' = Bool(TRUE))
        /\ Nominal' = Nominal
        /\ ~offsetted /\ offsetted' =>
              sdr'.center_freq = sdr.center_freq + 125000000
        /\ offsetted /\ ~offsetted' =>
              sdr'.center_freq = sdr.center_freq - 125000000
        /\ offsetted' = offsetted => sdr'.center_freq = sdr.center_freq]_vars

\* The offset was switched on at a nominal 100 MHz.
C7_Witness ==
    /\ op = "set_offsetted"
    /\ arg = Bool(TRUE)
    /\ ret = RetNone
    /\ offsetted
    /\ sdr.center_freq = 225000000

(***************************************************************************)
(* C8.  After a successful set_nominal_center_freq(f), under either value  *)
(* of the offset flag, get_nominal_center_freq() returns f and the         *)
(* hardware holds f plus 125 MHz if the flag is on, f if it is off.        *)
(***************************************************************************)
C8_NominalRoundTrip ==
    op = "set_nominal_center_freq" /\ ret = RetNone =>
        /\ get_nominal_center_freq(Self(<<>>)) = arg.v
        /\ sdr.center_freq = arg.v + (IF offsetted THEN 125000000 ELSE 0)

\* 100 MHz was set with the offset on.
C8_Witness ==
    /\ op = "set_nominal_center_freq"
    /\ arg = Fin(100000000)
    /\ ret = RetNone
    /\ offsetted

(***************************************************************************)
(* C9.  While the auto flag of a bound is off the bound is the fixed value *)
(* the user supplied: no operation but set_min_intensity changes           *)
(* min_intensity or its flag while min_auto is off, and none but           *)
(* set_max_intensity changes max_intensity or its flag while max_auto is   *)
(* off.                                                                    *)
(***************************************************************************)
C9_FixedBoundsStay ==
    [][/\ ~min_auto_scale /\ op' /= "set_min_intensity" =>
              min_intensity' = min_intensity /\ ~min_auto_scale'
       /\ ~max_auto_scale /\ op' /= "set_max_intensity" =>
              max_intensity' = max_intensity /\ ~max_auto_scale'
       /\ ~min_auto_scale' => min_intensity' \in {Fin(10), Fin(-10)}
       /\ ~max_auto_scale' => max_intensity' \in {Fin(10), Fin(-10)}]_vars

\* An acquisition whose frame goes below a fixed lower bound and above a
\* fixed upper bound left both where the user put them.
C9_Witness ==
    /\ op = "get_data"
    /\ ret.kind = "frame"
    /\ Len(ret.frame) > 0
    /\ ~min_auto_scale /\ min_intensity = Fin(10)
    /\ ~max_auto_scale /\ max_intensity = Fin(-10)
    /\ FLess(Least(ret.frame), min_intensity)
    /\ FLess(max_intensity, Greatest(ret.frame))

(***************************************************************************)
(* C10.  An acquisition only widens a bound on auto: afterwards            *)
(* min_intensity is the frame's minimum if it was absent, else the lesser  *)
(* of the frame's minimum and the previous min_intensity, so it never      *)
(* increases; max_intensity is the frame's maximum if it was absent, else  *)
(* the greater of the two, so it never decreases.                          *)
(***************************************************************************)
C10_AutoBoundsOnlyWiden ==
    [][op' = "get_data" /\ ret'.kind = "frame" =>
        /\ min_auto_scale =>
              /\ min_intensity = None => min_intensity' = Least(ret'.frame)
              /\ min_intensity /= None =>
                    /\ min_intensity' \in {min_intensity, Least(ret'.frame)}
                    /\ ~FLess(min_intensity, min_intensity')
                    /\ ~FLess(Least(ret'.frame), min_intensity')
        /\ max_auto_scale =>
              /\ max_intensity = None => max_intensity' = Greatest(ret'.frame)
              /\ max_intensity /= None =>
                    /\ max_intensity' \in {max_intensity, Greatest(ret'.frame)}
                    /\ ~FLess(max_intensity', max_intensity)
                    /\ ~FLess(max_intensity', Greatest(ret'.frame))]_vars

\* An acquisition whose frame lies strictly inside the bounds that earlier
\* acquisitions widened.
C10_Witness ==
    /\ op = "get_data"
    /\ ret.kind = "frame"
    /\ Len(ret.frame) > 0
    /\ min_auto_scale /\ max_auto_scale
    /\ min_intensity /= None /\ max_intensity /= None
    /\ FLess(min_intensity, Least(ret.frame))
    /\ FLess(Greatest(ret.frame), max_intensity)

(***************************************************************************)
(* C11 as stated.  Every acquisition that returns a frame returns exactly  *)
(* width values, whatever the size of the sample block the hardware read   *)
(* delivered.                                                              *)
(***************************************************************************)
C11_FrameHasWidthValues ==
    op = "get_data" /\ ret.kind = "frame" => Len(ret.frame) = width

\* The decibel value of a magnitude of the model.
DbOf(x) == CASE x = 0 -> NegInf [] x = 1 -> Fin(0) [] x = 10 -> Fin(20)

(***************************************************************************)
(* C12.  The frame is a re-indexing of the magnitude spectrum M of the     *)
(* width + 2 transformed samples: with N = width, frame[i] is the decibel  *)
(* value of M[1 + ((i - floor(N/2)) mod N)] for every i in 0..N-1 (indices *)
(* from 0), for even and for odd N.                                        *)
(***************************************************************************)
C12_FrameReindexesSpectrum ==
    op = "get_data" /\ ret.kind = "frame" =>
        /\ Len(spectrum) = width + 2
        /\ Len(ret.frame) = width
        /\ \A i \in 0..(width - 1) :
              ret.frame[i + 1] =
                  DbOf(spectrum[(1 + ((i - (width \div 2)) % width)) + 1])

\* A frame of odd width whose three bins all differ.
C12_Witness ==
    /\ op = "get_data"
    /\ width = 3
    /\ spectrum = <<1, 0, 1, 10, 0>>
    /\ ret.kind = "frame"
    /\ ret.frame = <<Fin(20), NegInf, Fin(0)>>

Difference(hi, lo) ==
    CASE hi.c = "fin" /\ lo.c = "fin" -> Fin(hi.v - lo.v)
      [] hi.c = "fin" /\ lo.c = "-inf" -> PosInf
      [] hi.c = "-inf" /\ lo.c = "fin" -> NegInf
      [] hi.c = "-inf" /\ lo.c = "-inf" -> NaN
      [] OTHER -> None

\* Both bounds are fixed, min to 10 and max to -10.
FixedInverted ==
    /\ ~min_auto_scale /\ min_intensity = Fin(10)
    /\ ~max_auto_scale /\ max_intensity = Fin(-10)

(***************************************************************************)
(* C14.  After every acquisition that returns a frame, range is            *)
(* max_intensity - min_intensity of the bounds then in effect.  The two    *)
(* intensity setters return nothing and store any fixed value given, and   *)
(* with min fixed to 10 and max fixed to -10 every acquisition whose read  *)
(* delivers samples returns a frame and leaves range = -20.                *)
(***************************************************************************)
C14_RangeIsMaxMinusMin ==
    /\ op = "get_data" /\ ret.kind = "frame" =>
          range = Difference(max_intensity, min_intensity)
    /\ op = "set_min_intensity" =>
          /\ ret = RetNone
          /\ arg /= AUTO => ~min_auto_scale /\ min_intensity = arg
    /\ op = "set_max_intensity" =>
          /\ ret = RetNone
          /\ arg /= AUTO => ~max_auto_scale /\ max_intensity = arg
    /\ op = "get_data" /\ FixedInverted /\ Len(spectrum) > 0 =>
          ret.kind = "frame" /\ range = Fin(-20)

\* An acquisition under min 10 and max -10 that returned a frame of values.
C14_Witness ==
    /\ op = "get_data"
    /\ FixedInverted
    /\ ret.kind = "frame"
    /\ Len(ret.frame) > 0
    /\ range = Fin(-20)

(***************************************************************************)
(* C15.  A call of get_data, however it ends, leaves the two auto flags,   *)
(* the offset flag, the gain mode, the device's center frequency, sample   *)
(* rate and gain, and every bound that is fixed as they were: it changes   *)
(* at most the bounds on auto and range.  An auto flag changes only in a   *)
(* call of its own setter.                                                 *)
(***************************************************************************)
C15_AcquisitionFrame ==
    [][/\ op' = "get_data" =>
             /\ min_auto_scale' = min_auto_scale
             /\ max_auto_scale' = max_auto_scale
             /\ offsetted' = offsetted
             /\ auto_gain' = auto_gain
             /\ sdr' = sdr
             /\ width' = width
             /\ ~min_auto_scale => min_intensity' = min_intensity
             /\ ~max_auto_scale => max_intensity' = max_intensity
       /\ min_auto_scale' /= min_auto_scale => op' = "set_min_intensity"
       /\ max_auto_scale' /= max_auto_scale => op' = "set_max_intensity"]_vars

\* An acquisition has widened the max bound of a tuner that is off its
\* defaults: offset on, manual gain, min fixed.
C15_Witness ==
    /\ op = "get_data"
    /\ ret.kind = "frame"
    /\ offsetted
    /\ ~auto_gain
    /\ sdr.center_freq = (100 + OffsetMHz) * HzPerMHz
    /\ ~min_auto_scale /\ min_intensity = Fin(-10)
    /\ max_auto_scale /\ max_intensity = Fin(20)
    /\ range = Fin(30)

(***************************************************************************)
(* C16 as stated.  In every reachable state a bound is absent only if its  *)
(* auto flag is on, and every get_data whose hardware read succeeded, with *)
(* samples delivered, ends with both bounds present and has not subtracted *)
(* an absent bound.                                                        *)
(***************************************************************************)
C16_BoundsPresentAfterRead ==
    /\ min_intensity = None => min_auto_scale
    /\ max_intensity = None => max_auto_scale
    /\ op = "get_data" /\ ret /= RetRaise("IOError") /\ Len(spectrum) > 0 =>
          /\ min_intensity /= None
          /\ max_intensity /= None
          /\ ret /= RetRaise("TypeError")

(***************************************************************************)
(* C17.  When the hardware read inside get_data fails, the call raises the *)
(* error to its caller and returns no (summary, detail) pair, reports no   *)
(* error and reinitializes nothing, and offsetted, the device, the gain    *)
(* mode, the auto flags, min_intensity, max_intensity and range are as     *)
(* they were before the call.                                              *)
(***************************************************************************)
C17_ReadFailurePropagates ==
    [][GetDataReadFails =>
          /\ op' = "get_data"
          /\ ret' = RetRaise("IOError")
          /\ ret'.kind /= "error"
          /\ reinits' = 0
          /\ reports' = 0
          /\ TunerAndScaling' = TunerAndScaling
          /\ width' = width]_vars

\* A failed read after bounds and range had been accumulated, on a tuner
\* that is off its defaults.
C17_Witness ==
    /\ op = "get_data"
    /\ ret = RetRaise("IOError")
    /\ reinits = 0
    /\ offsetted
    /\ ~auto_gain
    /\ min_auto_scale /\ min_intensity = Fin(0)
    /\ max_auto_scale /\ max_intensity = Fin(20)
    /\ range = Fin(20)

(***************************************************************************)
(* C18.  After every call of set_min_intensity or set_max_intensity, with  *)
(* 'AUTO' or with a fixed value, range is absent and every bound whose     *)
(* auto flag is on is absent, the bound of the other setter included.      *)
(***************************************************************************)
C18_SettersDiscardHistory ==
    [][op' \in {"set_min_intensity", "set_max_intensity"} =>
          /\ range' = None
          /\ min_auto_scale' => min_intensity' = None
          /\ max_auto_scale' => max_intensity' = None]_vars

\* set_max_intensity, given a fixed value, has discarded the min bound.
C18_Witness ==
    /\ op = "set_max_intensity"
    /\ arg = Fin(10)
    /\ ~max_auto_scale /\ max_intensity = Fin(10)
    /\ min_auto_scale /\ min_intensity = None
    /\ range = None
    /\ hwcalls = 0

====
